---------------------------- MODULE Spec2Model ----------------------------
(***************************************************************************)
(* A model of cube_convert.py, the DATA-CUBE to miniSEED conversion        *)
(* script: digitizer identification, calibration lookups, the three        *)
(* external GIPPtools stages (cube2mseed, mseedcut, mseedrename) and the   *)
(* per-file loop that merges data gaps, resolves channel and location      *)
(* codes, calibrates the samples and writes the file, the optional GPS     *)
(* stage (cubeaux) and the removal of the scratch directories.             *)
(*                                                                         *)
(* Conventions of the model:                                               *)
(*  - real numbers (volts, sensitivities, sample rates) are exact          *)
(*    rationals [n, d] in lowest terms; float64 rounding is not modelled;  *)
(*  - file names are sequences of character codes, so that the slices,     *)
(*    the endswith tests and the lexicographic sort of the script are      *)
(*    computed on the characters as the script computes them;              *)
(*  - time is counted in ticks, one sample per tick;                       *)
(*  - indices nf, mn and the members of inds are 0-based as in the script. *)
(***************************************************************************)
EXTENDS Integers, Sequences, FiniteSets, TLC

(***************************************************************************)
(* Bounds of the model.                                                    *)
(***************************************************************************)
\* Largest number of cut files in runs that explore the whole configuration.
MaxSegments == 2
\* Largest number of cut files in runs that explore the gap merge.
MaxGroupFiles == 3
\* Largest number of cut files of a run that starts on the leftovers of an
\* earlier run.
MaxLeftoverRun == 1

(***************************************************************************)
(* Exact rational arithmetic.                                              *)
(***************************************************************************)
Abs(x) == IF x < 0 THEN -x ELSE x

RECURSIVE Gcd(_, _)
Gcd(a, b) == IF b = 0 THEN a ELSE Gcd(b, a % b)

\* The rational n/d in lowest terms with a positive denominator.
Rat(n, d) ==
    LET g == Gcd(Abs(n), Abs(d))
        s == IF d < 0 THEN -1 ELSE 1
    IN  [n |-> s * (n \div g), d |-> s * (d \div g)]

RatInt(k) == [n |-> k, d |-> 1]

RMul(a, b) ==
    LET g1 == Gcd(Abs(a.n), b.d)
        g2 == Gcd(Abs(b.n), a.d)
    IN  Rat((a.n \div g1) * (b.n \div g2), (a.d \div g2) * (b.d \div g1))

RAdd(a, b) ==
    LET g == Gcd(a.d, b.d)
    IN  Rat(a.n * (b.d \div g) + b.n * (a.d \div g), (a.d \div g) * b.d)

RNeg(a) == [n |-> -a.n, d |-> a.d]

RSub(a, b) == RAdd(a, RNeg(b))

\* a / b for b # 0.
RDiv(a, b) == RMul(a, Rat(b.d, b.n))

RLe(a, b) == a.n * b.d <= b.n * a.d

RLt(a, b) == a.n * b.d < b.n * a.d

\* The value of a name that the script has not assigned yet.
NoValue == [n |-> 0, d |-> 0]

(***************************************************************************)
(* Sequences.                                                              *)
(***************************************************************************)
Range(s) == {s[i] : i \in DOMAIN s}

\* Python's s[-a:-b] for a string s: the characters a..b+1 places from the end.
Slice(s, a, b) == SubSeq(s, Len(s) - a + 1, Len(s) - b)

\* Python's s.endswith(t).
EndsWith(s, t) == Len(s) >= Len(t) /\ SubSeq(s, Len(s) - Len(t) + 1, Len(s)) = t

\* Python's string order: by character code, a proper prefix first.
RECURSIVE StrLess(_, _)
StrLess(s, t) ==
    IF t = <<>> THEN FALSE
    ELSE IF s = <<>> THEN TRUE
    ELSE IF Head(s) # Head(t) THEN Head(s) < Head(t)
    ELSE StrLess(Tail(s), Tail(t))

\* list.sort() of a collection of distinct strings.
RECURSIVE SortStrings(_)
SortStrings(S) ==
    IF S = {} THEN <<>>
    ELSE LET m == CHOOSE x \in S : \A y \in S \ {x} : StrLess(x, y)
         IN  <<m>> \o SortStrings(S \ {m})


(***************************************************************************)
(* Program constants and the calibration tables.                           *)
(***************************************************************************)
BITWEIGHT == Rat(1, 4096000)            \* 2.44140625e-7 V/ct

DEFAULT_SENSITIVITY == Rat(902, 100000) \* 0.00902 V/Pa

DEFAULT_OFFSET == Rat(-1529, 100000)    \* -0.01529 V

\* Minimum number of satellites required for keeping a GPS point.
NUM_SATS == 9

\* Station codes of the reverse-polarity list of the first version of the
\* script (cube_conversion.py); cube_convert.py has no such list.
REVERSE_POLARITY_LIST ==
    {"YIF1", "YIF2", "YIF3", "YIF4", "YIF5", "YIF6",
     "YIFA", "YIFB", "YIFC", "YIFD"}

\* digitizer_sensor_pairs.json, sensor_sensitivities.json and
\* digitizer_offsets.json as loaded at start-up.  The files are data of an
\* installation: the tables below are one installation in which one digitizer
\* has an offset but its sensor has no sensitivity, and the other the reverse.
digitizer_sensor_pairs == ("AEX" :> "SN01") @@ ("AF0" :> "SN02")

sensitivities == ("SN02" :> Rat(9, 1000))

digitizer_offsets == ("AEX" :> Rat(-3, 200))

(***************************************************************************)
(* Command-line arguments (after the checks of lines 67-86).               *)
(***************************************************************************)
Network == "AV"

Stations == {"GAIA", "YIF1"}

Locations == {"AUTO", "04"}

Channels == {"AUTO", "HDF"}

\* --bob-factor: absent (None) or 4.5.
BobFactors == {NoValue, Rat(9, 2)}

InputArgs ==
    [network : {Network}, station : Stations, location : Locations,
     channel : Channels, breakout_box_factor : BobFactors,
     earthscope : BOOLEAN, grab_gps : BOOLEAN]

(***************************************************************************)
(* The input directory: a listing of files, each given by its extension.   *)
(***************************************************************************)
Extensions == <<"AEX", "AF0", "LOG">>

\* Lines 123-127: the files whose extension is a key of the pairing table.
GlobRawFiles(listing) ==
    SelectSeq(listing, LAMBDA e : e \in DOMAIN digitizer_sensor_pairs)

\* Line 128: np.unique of the extensions of the raw files.
ExtensionsOf(files) == Range(files)

(***************************************************************************)
(* Cut files.  mseedcut names a file YYMMDDHHMMSS, then ".1" when the name *)
(* is taken, then the stream suffix (.pri0, .pri1, .pri2 for the three     *)
(* primary channels).  A file holds one trace of 32-bit integer counts.    *)
(***************************************************************************)
Digit(k) == 48 + k

TwoDigits(k) == <<Digit(k \div 10), Digit(k % 10)>>

SuffixChars(suf) ==
    CASE suf = "pri0" -> <<46, 112, 114, 105, 48>>
      [] suf = "pri1" -> <<46, 112, 114, 105, 49>>
      [] suf = "pri2" -> <<46, 112, 114, 105, 50>>
      [] OTHER        -> <<46, 115, 101, 99, 48>>     \* ".sec0"

\* part is "0000" (the file starts on the hour), "0000.1" (a second file for
\* the same second) or "1500" (a file that starts after a gap).
PartChars(part) ==
    CASE part = "0000"   -> <<48, 48, 48, 48>>
      [] part = "0000.1" -> <<48, 48, 48, 48, 46, 49>>
      [] OTHER           -> <<49, 53, 48, 48>>

\* The name of the cut file of 20yy-07-20 hh:mm:ss.
CutName(c) ==
    TwoDigits(c.yy) \o <<48, 55, 50, 48>> \o TwoDigits(c.hh)
      \o PartChars(c.part) \o SuffixChars(c.suf)

\* Model time: two hours to a "year", four ticks to an hour.
StartTick(c) ==
    ((c.yy - 19) * 2 + (c.hh - 3)) * 4
      + (CASE c.part = "0000" -> 0 [] c.part = "0000.1" -> 2 [] OTHER -> 3)

YearOf(t) == 19 + (t \div 8)

HourOf(t) == 3 + ((t % 8) \div 4)

SlotDigit(suf) ==
    CASE suf = "pri0" -> 0 [] suf = "pri1" -> 1 [] suf = "pri2" -> 2 [] OTHER -> 3

Counts(c) ==
    CASE c.part = "0000"   -> <<1000 + SlotDigit(c.suf), SlotDigit(c.suf) - 1000>>
      [] c.part = "0000.1" -> <<-5>>
      [] OTHER             -> <<7 + SlotDigit(c.suf)>>

\* The channel code cube2mseed gives the stream of a suffix.
StreamChannel(suf) ==
    CASE suf = "pri0" -> "p0" [] suf = "pri1" -> "p1" [] suf = "pri2" -> "p2"
      [] OTHER -> "s0"

\* The trace obspy.read finds in a cut file of rate r (as written by
\* cube2mseed --encoding=INT-32 and cut by mseedcut).
CutTrace(c, r) ==
    [network |-> "", station |-> "c0", location |-> "",
     channel |-> StreamChannel(c.suf), sampling_rate |-> r,
     starttime |-> StartTick(c), data |-> [i \in DOMAIN Counts(c) |-> RatInt(Counts(c)[i])],
     dtype |-> "int32"]


\* What the raw files hold, as the cut files mseedcut makes of it: a function
\* from file names to streams.  rate gives each file its sample rate.
Recording(N, rate) ==
    [nm \in {CutName(c) : c \in N} |->
        LET c == CHOOSE x \in N : CutName(x) = nm IN <<CutTrace(c, rate[c])>>]

\* The recordings of at most n files over the cuts Cuts; with mixed = FALSE the
\* files of a recording share one sample rate.
Recordings(Cuts, Rates, n, mixed) ==
    UNION { { Recording(N, rate) :
                rate \in { q \in [N -> Rates] :
                             mixed \/ \A a \in N, b \in N : q[a] = q[b] } } :
            N \in { M \in SUBSET Cuts : Cardinality(M) <= n } }

Cut(yy, hh, part, suf) == [yy |-> yy, hh |-> hh, part |-> part, suf |-> suf]

\* One file per stream of a three-channel recorder, and a secondary stream.
ChannelCuts ==
    { Cut(19, 3, "0000", "pri0"), Cut(19, 3, "0000", "pri1"),
      Cut(19, 4, "0000", "pri2"), Cut(19, 4, "0000", "sec0") }

\* Sample rates at the edges of the channel bands, in Hz.
BandRates ==
    { Rat(99, 10), RatInt(10), Rat(799, 10), RatInt(80),
      Rat(2499, 10), RatInt(250), Rat(9999, 10), RatInt(1000) }

\* An hour with a data gap, a repeated name, a second stream, the next hour
\* and the same hour of the same day one year later.
GapCuts ==
    { Cut(19, 3, "0000", "pri0"), Cut(19, 3, "0000.1", "pri0"),
      Cut(19, 3, "1500", "pri0"), Cut(19, 3, "0000", "pri1"),
      Cut(19, 4, "0000", "pri0"), Cut(20, 3, "0000", "pri0") }

GapRates == { RatInt(100), RatInt(200) }

(***************************************************************************)
(* The bookkeeping of the loop over the cut files (lines 219-228).         *)
(***************************************************************************)
\* Lines 221-224: the month, day and hour characters of a file name.
MdayhourOf(file) ==
    IF Slice(file, 7, 6) = <<46>> THEN Slice(file, 17, 11) ELSE Slice(file, 15, 9)

Mdayhour(cfl) == [i \in DOMAIN cfl |-> MdayhourOf(cfl[i])]

\* range(n) as a sequence.
PyRange(n) == [k \in 1..n |-> k - 1]

\* np.where(mdayhour == v)[0]
Where(mdh, v) == SelectSeq(PyRange(Len(mdh)), LAMBDA k : mdh[k + 1] = v)

\* Line 226: for each hour with several files, the indices of its files.
Inds(mdh) ==
    LET firsts == SelectSeq(PyRange(Len(mdh)),
                    LAMBDA i : /\ Len(Where(mdh, mdh[i + 1])) > 1
                               /\ i = Where(mdh, mdh[i + 1])[1])
    IN  [m \in DOMAIN firsts |-> Where(mdh, mdh[firsts[m] + 1])]

(***************************************************************************)
(* obspy streams.                                                          *)
(***************************************************************************)
TraceId(tr) == <<tr.network, tr.station, tr.location, tr.channel>>

EndTick(tr) == tr.starttime + Len(tr.data) - 1

\* Line 245: some two traces of the stream differ in sampling rate.
RatesDiffer(s) ==
    \E i \in DOMAIN s, j \in DOMAIN s : s[i].sampling_rate # s[j].sampling_rate

\* A discard of every trace whose sampling rate is not that of the last trace.
DiscardByRate(s) ==
    SelectSeq(s, LAMBDA t : t.sampling_rate = s[Len(s)].sampling_rate)

\* A discard that goes on to the last trace.
RECURSIVE DiscardToTheEnd(_)
DiscardToTheEnd(s) ==
    IF s # <<>> /\ (RatesDiffer(s) \/ Len(s) = 1)
    THEN DiscardToTheEnd(Tail(s)) ELSE s

\* The number of passes of the loop of lines 245-247 on the stream s.
RECURSIVE DiscardPasses(_)
DiscardPasses(s) == IF RatesDiffer(s) THEN 1 + DiscardPasses(Tail(s)) ELSE 0

\* Lines 245-247: remove the oldest trace while the sampling rates differ.
RECURSIVE DiscardOldest(_)
DiscardOldest(s) == IF RatesDiffer(s) THEN DiscardOldest(Tail(s)) ELSE s

\* The ids of a stream in the order in which they first occur.
RECURSIVE IdsInOrder(_)
IdsInOrder(s) ==
    IF s = <<>> THEN <<>>
    ELSE <<TraceId(Head(s))>>
           \o IdsInOrder(SelectSeq(Tail(s), LAMBDA t : TraceId(t) # TraceId(Head(s))))

\* Trace.__add__ over the traces ts of one id, method 0 with fill_value: the
\* samples of the traces where one trace (or several agreeing ones) has a
\* sample, fill_value in the gaps and where overlapping traces disagree.
MergeTraces(ts, fill_value) ==
    LET first == CHOOSE i \in DOMAIN ts :
                     \A j \in DOMAIN ts :
                         \/ ts[i].starttime < ts[j].starttime
                         \/ ts[i].starttime = ts[j].starttime /\ i <= j
        lo == ts[first].starttime
        hi == CHOOSE e \in {EndTick(ts[i]) : i \in DOMAIN ts} :
                  \A i \in DOMAIN ts : EndTick(ts[i]) <= e
        At(t) == { ts[i].data[t - ts[i].starttime + 1] :
                     i \in { j \in DOMAIN ts : ts[j].starttime <= t /\ t <= EndTick(ts[j]) } }
    IN  [ts[first] EXCEPT
            !.data = [k \in 1..(hi - lo + 1) |->
                         IF Cardinality(At(lo + k - 1)) = 1
                         THEN CHOOSE v \in At(lo + k - 1) : TRUE
                         ELSE fill_value]]

\* Stream.merge refuses traces of one id with different sampling rates or
\* different data types.
MergeRaises(s) ==
    \E i \in DOMAIN s, j \in DOMAIN s :
        /\ TraceId(s[i]) = TraceId(s[j])
        /\ \/ s[i].sampling_rate # s[j].sampling_rate
           \/ s[i].dtype # s[j].dtype

\* Line 249: Stream.merge(fill_value=0) leaves one trace per id.
Merge(s, fill_value) ==
    LET ids == IdsInOrder(s)
    IN  [k \in DOMAIN ids |->
            MergeTraces(SelectSeq(s, LAMBDA t : TraceId(t) = ids[k]), fill_value)]


\* The numpy dtype an encoding of st.write takes.
EncodingDtype(encoding) == IF encoding = "INT32" THEN "int32" ELSE "float64"

\* st.write(encoding=...) refuses a trace whose dtype is not the encoding's.
WriteRaises(s, encoding) ==
    \E i \in DOMAIN s : s[i].dtype # EncodingDtype(encoding)

\* mseedrename --include-pattern: "*.pri?" takes any one character for "?".
Matches(pattern, file) ==
    CASE pattern = "*.pri0" -> EndsWith(file, SuffixChars("pri0"))
      [] pattern = "*.pri1" -> EndsWith(file, SuffixChars("pri1"))
      [] pattern = "*.pri2" -> EndsWith(file, SuffixChars("pri2"))
      [] pattern = "*.pri?" -> /\ Len(file) >= 5
                               /\ Slice(file, 5, 1) = <<46, 112, 114, 105>>
      [] OTHER -> FALSE

\* mseedrename --template=N.S.L.C.%Y.%j.%H on a file whose data start at t.
RenamedTo(template, t) ==
    [network |-> template[1], station |-> template[2], location |-> template[3],
     channel |-> template[4], year |-> YearOf(t), hour |-> HourOf(t)]

\* A directory without the file f.
Without(dir, f) == [n \in DOMAIN dir \ {f} |-> dir[n]]

\* A directory in which the file f holds c.
With(dir, f, c) == [n \in DOMAIN dir \cup {f} |-> IF n = f THEN c ELSE dir[n]]

(***************************************************************************)
(* State.                                                                  *)
(***************************************************************************)
VARIABLES
    input_args,      \* the parsed command line
    input_dir,       \* the listing of the input directory
    recording,       \* what the raw files hold (see Recording)
    pc,              \* the block of the script that runs next
    error,           \* the exception that ended the run, "" if none
    warned,          \* the warnings issued
    raw_files, extensions, digitizer, sensor, offset, sensitivity,
    ri,              \* the number of raw files handed to cube2mseed
    returncode,      \* the return code of the last subprocess.call
    dirs,            \* the scratch directories that exist
    tmp_dir,         \* the day files in tmp/, by the index of their raw file
    tmp_dir2,        \* the files in tmp2/: file name -> stream
    output_dir,      \* the renamed files: name -> stream
    cut_file_list, inds, nf, mn, file, st,
    channel_id, location_id, channel_pattern, output_encoding, name_template,
    writes,          \* the st.write calls made: file, stream and encoding
    json_filename    \* the coordinate file written by --grab-gps, <<>> if none

env == <<input_args, input_dir, recording>>

lookups == <<raw_files, extensions, digitizer, sensor, offset, sensitivity>>

scratch == <<dirs, tmp_dir, tmp_dir2, output_dir>>

loop == <<cut_file_list, inds, nf, mn, file, st>>

codes == <<channel_id, location_id, channel_pattern, output_encoding, name_template>>

vars ==
    <<env, pc, error, warned, lookups, ri, returncode, scratch, loop, codes,
      writes, json_filename>>

\* The listings of the input directory that are explored.
InputListings ==
    { <<>>, <<"LOG">>, <<"AEX">>, <<"AF0">>, <<"AEX", "AEX">>,
      <<"AEX", "LOG">>, <<"AEX", "AF0">> }

\* The output directory exists (lines 74-76) and holds nothing yet.
NoScratch == [dirs |-> {"output"}, tmp_dir |-> {}, tmp_dir2 |-> <<>>]

\* The trace of a cut file that an earlier run, for the digitizer AEX, wrote
\* back at line 311 and mseedrename did not move: its metadata are set, and
\* its samples are the calibrated float64 values unless that run kept the
\* counts.  The file holds one sample, the count that is 0.015 V.
LeftoverTrace(c, r, kept_counts) ==
    [CutTrace(c, r) EXCEPT
        !.network = Network, !.station = "GAIA", !.channel = "HDF",
        !.location = "01",
        !.data = IF kept_counts THEN <<RatInt(61440)>>
                 ELSE <<RDiv(RAdd(RMul(RatInt(61440), BITWEIGHT),
                                  digitizer_offsets["AEX"]),
                             DEFAULT_SENSITIVITY)>>,
        !.dtype = IF kept_counts THEN "int32" ELSE "float64"]

\* What an earlier run that did not come to its end can have left in the
\* output directory: empty scratch directories, the day file of the batch in
\* tmp/, a cut file in tmp2/ (as cut, or as written back at line 311).
LeftoverCut == Cut(19, 4, "0000", "pri0")

Scratches ==
    { NoScratch,
      [dirs |-> {"output", "tmp", "tmp2"}, tmp_dir |-> {}, tmp_dir2 |-> <<>>],
      [dirs |-> {"output", "tmp"}, tmp_dir |-> {1}, tmp_dir2 |-> <<>>] }
    \cup
    { [dirs |-> {"output", "tmp", "tmp2"}, tmp_dir |-> {},
       tmp_dir2 |-> (CutName(LeftoverCut) :> <<tr>>)] :
        tr \in { CutTrace(LeftoverCut, RatInt(100)),
                 LeftoverTrace(LeftoverCut, RatInt(100), TRUE),
                 LeftoverTrace(LeftoverCut, RatInt(100), FALSE),
                 LeftoverTrace(LeftoverCut, RatInt(1000), FALSE) } }

InitIn(Args, Listings, Recs, Scr) ==
    /\ input_args \in Args
    /\ input_dir \in Listings
    /\ recording \in Recs
    /\ \E s \in Scr : dirs = s.dirs /\ tmp_dir = s.tmp_dir /\ tmp_dir2 = s.tmp_dir2
    /\ pc = "identify"
    /\ error = ""
    /\ warned = {}
    /\ raw_files = <<>>
    /\ extensions = {}
    /\ digitizer = ""
    /\ sensor = ""
    /\ offset = NoValue
    /\ sensitivity = NoValue
    /\ ri = 0
    /\ returncode = 0
    /\ output_dir = <<>>
    /\ cut_file_list = <<>>
    /\ inds = <<>>
    /\ nf = 0
    /\ mn = 0
    /\ file = <<>>
    /\ st = <<>>
    /\ channel_id = ""
    /\ location_id = ""
    /\ channel_pattern = ""
    /\ output_encoding = ""
    /\ name_template = <<>>
    /\ writes = <<>>
    /\ json_filename = <<>>

\* A run in an output directory without scratch directories.
InitWith(Args, Listings, Recs) == InitIn(Args, Listings, Recs, {NoScratch})

\* The configurations of a run: every choice of station, codes, breakout box
\* factor and output format, with the GPS stage for those of one station.
RunArgs ==
    { a \in InputArgs :
        a.grab_gps => a.station = "GAIA" /\ a.breakout_box_factor = NoValue }

\* Every configuration, on recordings of the streams of a recorder at the
\* sample rates of the band edges.
Init ==
    InitWith(RunArgs, InputListings,
             Recordings(ChannelCuts, BandRates, MaxSegments, FALSE))

\* Recordings with data gaps and changes of sample rate, under the location
\* and output-format choices.
InitGaps ==
    InitWith({ a \in InputArgs : /\ a.station = "GAIA"
                                 /\ a.breakout_box_factor = NoValue
                                 /\ a.channel = "AUTO" },
             { <<>>, <<"AEX">>, <<"AEX", "AF0">> },
             Recordings(GapCuts, GapRates, MaxGroupFiles, TRUE))

\* Runs in an output directory that holds what an earlier run left.
InitScratch ==
    InitIn({ a \in InputArgs : /\ a.station = "GAIA"
                               /\ a.breakout_box_factor = NoValue },
           { <<>>, <<"AEX">>, <<"AF0", "AF0">> },
           Recordings(ChannelCuts, {RatInt(100)}, MaxLeftoverRun, FALSE),
           Scratches)

\* raise: the run ends with the exception e.
Raise(e) == pc' = "failed" /\ error' = e


(***************************************************************************)
(* Lines 121-137: gather the raw files, identify the digitizer, make tmp/. *)
(***************************************************************************)
\* A check that takes an empty batch for a mixed one.
ExtensionsErrorOneTest(exts) ==
    IF Cardinality(exts) # 1
    THEN "ValueError: Files from multiple digitizers found"
    ELSE ""

\* Lines 129-132: the exception the extensions raise, "" if none.
ExtensionsError(exts) ==
    IF Cardinality(exts) = 0 THEN "FileNotFoundError: No raw files found."
    ELSE IF Cardinality(exts) # 1
         THEN "ValueError: Files from multiple digitizers found"
         ELSE ""

\* Lines 136-137 and 192-193: os.makedirs(d) unless d exists.
Makedirs(d, ds) == IF d \in ds THEN ds ELSE ds \cup {d}

Identify ==
    /\ pc = "identify"
    /\ raw_files' = GlobRawFiles(input_dir)
    /\ extensions' = ExtensionsOf(raw_files')
    /\ IF ExtensionsError(extensions') # ""
       THEN Raise(ExtensionsError(extensions')) /\ dirs' = dirs
       ELSE pc' = "offset" /\ error' = error /\ dirs' = Makedirs("tmp", dirs)
    /\ UNCHANGED <<json_filename, env, warned, digitizer, sensor, offset,
                   sensitivity, ri, returncode, tmp_dir, tmp_dir2, output_dir,
                   loop, codes, writes>>

(***************************************************************************)
(* Lines 139-147: the digitizer and its offset.                            *)
(***************************************************************************)
\* A lookup that answers an unknown digitizer with the default in silence.
LookupOffsetSilent(d) ==
    IF d \in DOMAIN digitizer_offsets
    THEN [value |-> digitizer_offsets[d], used_default |-> FALSE]
    ELSE [value |-> DEFAULT_OFFSET, used_default |-> FALSE]

\* Lines 141-146: the offset of digitizer d and whether the default is used.
LookupOffsetOf(d) ==
    IF d \in DOMAIN digitizer_offsets
    THEN [value |-> digitizer_offsets[d], used_default |-> FALSE]
    ELSE [value |-> DEFAULT_OFFSET, used_default |-> TRUE]

LookupOffset ==
    /\ pc = "offset"
    /\ digitizer' = CHOOSE e \in extensions : TRUE
    /\ offset' = LookupOffsetOf(digitizer').value
    /\ warned' = IF LookupOffsetOf(digitizer').used_default
                 THEN warned \cup {"No matching offset values."}
                 ELSE warned
    /\ pc' = "sensitivity"
    /\ UNCHANGED <<json_filename, env, error, raw_files, extensions, sensor, sensitivity, ri,
                   returncode, scratch, loop, codes, writes>>

(***************************************************************************)
(* Lines 149-170: the sensor and its sensitivity, unless --earthscope.     *)
(***************************************************************************)
\* Lines 158-163: the sensitivity of sensor s and whether the default is used.
LookupSensitivityOf(s) ==
    IF s \in DOMAIN sensitivities
    THEN [value |-> sensitivities[s], used_default |-> FALSE]
    ELSE [value |-> DEFAULT_SENSITIVITY, used_default |-> TRUE]

\* Lines 167-168: the sensitivity divided by a breakout box factor that is
\* neither None nor 0.
BreakoutCorrected(value, factor) ==
    IF factor # NoValue /\ factor.n # 0 THEN RDiv(value, factor) ELSE value

LookupSensitivity ==
    /\ pc = "sensitivity"
    /\ IF input_args.earthscope
       THEN /\ warned' = IF input_args.breakout_box_factor # NoValue
                         THEN warned \cup {"Breakout box correction factor ignored"}
                         ELSE warned
            /\ pc' = "cube2mseed"
            /\ UNCHANGED <<sensor, sensitivity, error>>
       ELSE IF digitizer \notin DOMAIN digitizer_sensor_pairs
            THEN Raise("KeyError") /\ UNCHANGED <<sensor, sensitivity, warned>>
            ELSE /\ sensor' = digitizer_sensor_pairs[digitizer]
                 /\ sensitivity' =
                        BreakoutCorrected(LookupSensitivityOf(sensor').value,
                                          input_args.breakout_box_factor)
                 /\ warned' = IF LookupSensitivityOf(sensor').used_default
                              THEN warned \cup {"No matching sensitivities."}
                              ELSE warned
                 /\ pc' = "cube2mseed"
                 /\ error' = error
    /\ UNCHANGED <<json_filename, env, raw_files, extensions, digitizer, offset, ri,
                   returncode, scratch, loop, codes, writes>>

(***************************************************************************)
(* Lines 176-184: cube2mseed on each raw file.  subprocess.call returns    *)
(* the tool's return code, which the script does not look at.  The samples *)
(* of the batch are in its first raw file: a failed call leaves no day     *)
(* file.                                                                   *)
(***************************************************************************)
Cube2mseed ==
    /\ pc = "cube2mseed"
    /\ ri < Len(raw_files)
    /\ \E rc \in {0, 1} :
          /\ returncode' = rc
          /\ tmp_dir' = IF rc = 0 THEN tmp_dir \cup {ri + 1} ELSE tmp_dir
    /\ ri' = ri + 1
    /\ pc' = IF ri' = Len(raw_files) THEN "mseedcut" ELSE "cube2mseed"
    /\ UNCHANGED <<json_filename, env, error, warned, lookups, dirs, tmp_dir2, output_dir,
                   loop, codes, writes>>

(***************************************************************************)
(* Lines 190-232: make tmp2/, run mseedcut on tmp/, remove the day files,  *)
(* list and sort the cut files and find the hours with several files.      *)
(***************************************************************************)
Mseedcut ==
    /\ pc = "mseedcut"
    /\ dirs' = Makedirs("tmp2", dirs)
    /\ \E rc \in {0, 1} :
          /\ returncode' = rc
          /\ tmp_dir2' = IF rc = 0 /\ 1 \in tmp_dir
                         THEN [n \in DOMAIN tmp_dir2 \cup DOMAIN recording |->
                                 IF n \in DOMAIN recording THEN recording[n]
                                 ELSE tmp_dir2[n]]
                         ELSE tmp_dir2
    /\ tmp_dir' = {}
    /\ cut_file_list' = SortStrings(DOMAIN tmp_dir2')
    /\ inds' = Inds(Mdayhour(cut_file_list'))
    /\ nf' = 0
    /\ mn' = 0
    /\ pc' = "read"
    /\ UNCHANGED <<json_filename, env, error, warned, lookups, ri, output_dir,
                   file, st, codes, writes>>


(***************************************************************************)
(* Lines 233-257: the head of the loop over the cut files: read the file   *)
(* and, when it is the first file of an hour with several files, read and  *)
(* remove the other files of the hour, drop the oldest traces until the    *)
(* sampling rates agree and merge.                                         *)
(***************************************************************************)
\* obspy.read of each file of names, added up in order.
RECURSIVE ReadAll(_, _)
ReadAll(names, dir) ==
    IF names = <<>> THEN <<>> ELSE dir[Head(names)] \o ReadAll(Tail(names), dir)

\* Lines 245-249 on the stream read for an hour with several files.
Reconcile(s) == Merge(DiscardOldest(s), RatInt(0))

ReadSegment ==
    /\ pc = "read"
    /\ IF nf >= Len(cut_file_list)
       THEN /\ pc' = IF input_args.grab_gps THEN "gps" ELSE "teardown"
            /\ UNCHANGED <<error, tmp_dir2, nf, mn, file, st>>
       ELSE
         LET f == cut_file_list[nf + 1]
             grouped == mn < Len(inds) /\ nf = inds[mn + 1][1]
             names == IF grouped
                      THEN [k \in DOMAIN inds[mn + 1] |->
                              cut_file_list[inds[mn + 1][k] + 1]]
                      ELSE <<f>>
             missing == { k \in DOMAIN names : names[k] \notin DOMAIN tmp_dir2 }
             \* the files read before the first one that is missing
             nread == IF missing = {} THEN Len(names)
                      ELSE (CHOOSE k \in missing : \A j \in missing : k <= j) - 1
             removed == { names[k] : k \in 2..nread }
             read == ReadAll(names, tmp_dir2)
         IN  /\ file' = f
             /\ tmp_dir2' = [n \in DOMAIN tmp_dir2 \ removed |-> tmp_dir2[n]]
             /\ IF missing # {}
                THEN Raise("FileNotFoundError") /\ UNCHANGED <<nf, mn, st>>
                ELSE IF grouped /\ MergeRaises(DiscardOldest(read))
                     THEN /\ Raise("Exception: Can't merge traces")
                          /\ UNCHANGED <<nf, mn, st>>
                     ELSE /\ st' = IF grouped THEN Reconcile(read) ELSE read
                          /\ nf' = nf + Len(names)
                          /\ mn' = IF grouped THEN mn + 1 ELSE mn
                          /\ pc' = "metadata"
                          /\ error' = error
    /\ UNCHANGED <<json_filename, env, warned, lookups, ri, returncode, dirs, tmp_dir,
                   output_dir, cut_file_list, inds, codes, writes>>

(***************************************************************************)
(* Lines 259-309: the metadata of the first trace of the stream: network   *)
(* and station, the channel code, the calibration, the location code.      *)
(***************************************************************************)
\* Bands closed at their upper edge.
ChannelOfRateClosed(r) ==
    IF RLe(RatInt(10), r) /\ RLe(r, RatInt(80)) THEN "BDF"
    ELSE IF RLe(RatInt(80), r) /\ RLe(r, RatInt(250)) THEN "HDF"
    ELSE IF RLe(RatInt(250), r) /\ RLe(r, RatInt(1000)) THEN "CDF"
    ELSE ""

\* Lines 264-271: the channel code of a sampling rate, "" where the script
\* raises.
ChannelOfRate(r) ==
    IF RLe(RatInt(10), r) /\ RLt(r, RatInt(80)) THEN "BDF"
    ELSE IF RLe(RatInt(80), r) /\ RLt(r, RatInt(250)) THEN "HDF"
    ELSE IF RLe(RatInt(250), r) /\ RLt(r, RatInt(1000)) THEN "CDF"
    ELSE ""

\* Lines 263-273.
ChannelId(r) ==
    IF input_args.channel = "AUTO" THEN ChannelOfRate(r) ELSE input_args.channel

\* Lines 291-301: location code and file pattern of a file name, "" where
\* the script raises.
LocationOfFile(f) ==
    IF EndsWith(f, SuffixChars("pri0"))
    THEN [location_id |-> "01", channel_pattern |-> "*.pri0"]
    ELSE IF EndsWith(f, SuffixChars("pri1"))
    THEN [location_id |-> "02", channel_pattern |-> "*.pri1"]
    ELSE IF EndsWith(f, SuffixChars("pri2"))
    THEN [location_id |-> "03", channel_pattern |-> "*.pri2"]
    ELSE [location_id |-> "", channel_pattern |-> ""]

\* The pattern of the first channel slot for a location given on the command
\* line.
LocationIdFirstSlot(f) ==
    IF input_args.location = "AUTO" THEN LocationOfFile(f)
    ELSE [location_id |-> input_args.location, channel_pattern |-> "*.pri0"]

\* Lines 290-304.
LocationId(f) ==
    IF input_args.location = "AUTO" THEN LocationOfFile(f)
    ELSE [location_id |-> input_args.location, channel_pattern |-> "*.pri?"]

\* A calibration that subtracts the offset.
CalibratedSubtracting(c) ==
    RDiv(RSub(RMul(c, BITWEIGHT), offset), sensitivity)

\* A calibration that reverses the polarity of the stations of the list.
CalibratedReversing(c) ==
    IF input_args.station \in REVERSE_POLARITY_LIST
    THEN RNeg(RDiv(RAdd(RMul(c, BITWEIGHT), offset), sensitivity))
    ELSE RDiv(RAdd(RMul(c, BITWEIGHT), offset), sensitivity)

\* Lines 284-286: counts to volts, add the offset, volts to pascals.
Calibrated(c) == RDiv(RAdd(RMul(c, BITWEIGHT), offset), sensitivity)

\* A conversion that applies the breakout box factor to the counts kept for
\* EarthScope.
ConvertedWithFactor(tr) ==
    IF input_args.earthscope
    THEN [data |-> [i \in DOMAIN tr.data |->
                      IF input_args.breakout_box_factor # NoValue
                      THEN RMul(tr.data[i], input_args.breakout_box_factor)
                      ELSE tr.data[i]],
          dtype |-> tr.dtype, encoding |-> "INT32"]
    ELSE [data |-> [i \in DOMAIN tr.data |-> Calibrated(tr.data[i])],
          dtype |-> "float64", encoding |-> "FLOAT64"]

\* Lines 281-288: the data, dtype and encoding of the trace.
Converted(tr) ==
    IF input_args.earthscope
    THEN [data |-> tr.data, dtype |-> tr.dtype, encoding |-> "INT32"]
    ELSE [data |-> [i \in DOMAIN tr.data |-> Calibrated(tr.data[i])],
          dtype |-> "float64", encoding |-> "FLOAT64"]

\* A check that lets every trace through.
DtypeUnchecked(tr) == TRUE

\* Line 278: assert tr.data.dtype == np.int32
DtypeAsserted(tr) == tr.dtype = "int32"

SetMetadata ==
    /\ pc = "metadata"
    /\ LET tr == st[1]
           cha == ChannelId(tr.sampling_rate)
           loc == LocationId(file)
           conv == Converted(tr)
       IN  IF cha = ""
           THEN /\ Raise("ValueError: Sampling rate is < 10 or >= 1000 Hz!")
                /\ UNCHANGED <<st, codes>>
           ELSE IF ~DtypeAsserted(tr)
           THEN /\ Raise("AssertionError")
                /\ channel_id' = cha
                /\ UNCHANGED <<st, location_id, channel_pattern, output_encoding,
                               name_template>>
           ELSE IF loc.location_id = ""
           THEN /\ Raise("ValueError: File not recognized.")
                /\ channel_id' = cha
                /\ output_encoding' = conv.encoding
                /\ UNCHANGED <<st, location_id, channel_pattern, name_template>>
           ELSE /\ channel_id' = cha
                /\ output_encoding' = conv.encoding
                /\ location_id' = loc.location_id
                /\ channel_pattern' = loc.channel_pattern
                /\ st' = [st EXCEPT ![1] =
                            [tr EXCEPT !.network = input_args.network,
                                       !.station = input_args.station,
                                       !.channel = cha,
                                       !.data = conv.data,
                                       !.dtype = conv.dtype,
                                       !.location = loc.location_id]]
                /\ pc' = "write"
                /\ UNCHANGED <<error, name_template>>
    /\ UNCHANGED <<json_filename, env, warned, lookups, ri, returncode, scratch,
                   cut_file_list, inds, nf, mn, file, writes>>

(***************************************************************************)
(* Lines 311-323: write the stream over the cut file and have mseedrename  *)
(* move the file to the output directory under its SEED name.              *)
(***************************************************************************)
\* A template with the location of the command line, as the name of the
\* coordinate file has it (lines 402-403).
NameTemplateOfArgs ==
    <<input_args.network, input_args.station, input_args.location, channel_id>>

\* Lines 314-315.
NameTemplate ==
    <<input_args.network, input_args.station, location_id, channel_id>>

WriteAndRename ==
    /\ pc = "write"
    /\ IF WriteRaises(st, output_encoding)
       THEN /\ Raise("Exception: Wrong dtype for encoding")
            /\ UNCHANGED <<returncode, tmp_dir2, output_dir, name_template, writes>>
       ELSE /\ writes' = Append(writes, [file |-> file, st |-> st,
                                         encoding |-> output_encoding])
            /\ name_template' = NameTemplate
            /\ \E rc \in {0, 1} :
                  /\ returncode' = rc
                  /\ IF rc = 0 /\ Matches(channel_pattern, file)
                     THEN /\ tmp_dir2' = Without(tmp_dir2, file)
                          /\ output_dir' =
                                With(output_dir,
                                     RenamedTo(name_template', st[1].starttime), st)
                     ELSE /\ tmp_dir2' = With(tmp_dir2, file, st)
                          /\ output_dir' = output_dir
            /\ pc' = "read"
            /\ error' = error
    /\ UNCHANGED <<json_filename, env, warned, lookups, ri, dirs, tmp_dir, loop, channel_id,
                   location_id, channel_pattern, output_encoding>>

(***************************************************************************)
(* Lines 325-474: with --grab-gps, cubeaux on each raw file, the GPS points *)
(* with a position and enough satellites, and the coordinate file.  The    *)
(* coordinates themselves (the peak of a histogram) are not modelled.      *)
(***************************************************************************)
\* What cubeaux prints for the raw files of a batch: GPS points with their
\* latitude, longitude and number of satellites.
GpsPoint(lat, lon, sats) == [lat |-> lat, lon |-> lon, sats |-> sats]

GpsOutputs ==
    { <<GpsPoint(0, 0, 12)>>,
      <<GpsPoint(64, -147, 8)>>,
      <<GpsPoint(0, -147, 9), GpsPoint(64, -147, 9)>>,
      <<GpsPoint(64, -147, 8), GpsPoint(64, -147, 10)>> }

\* Lines 354 and 357: drop the points without a position and those with
\* fewer than NUM_SATS satellites.
GpsData(points) ==
    SelectSeq(SelectSeq(points, LAMBDA g : g.lat # 0 /\ g.lon # 0),
              LAMBDA g : g.sats >= NUM_SATS)

\* What the files of the output directory are, for os.removedirs.
OutputFiles(odir, json) ==
    DOMAIN odir \cup (IF json = <<>> THEN {} ELSE {json})

\* os.removedirs(d) for a scratch directory d of the output directory: remove
\* d, then the output directory too if that has become empty.
Removedirs(d, ds, files) ==
    IF (ds \ {d}) \cap {"tmp", "tmp2"} = {} /\ files = {}
    THEN ds \ {d, "output"}
    ELSE ds \ {d}

\* A removal that does not look into the directory.
RemoveAlways(d, ds, listing, files) == Removedirs(d, ds, files)

\* Lines 360-361, 477-480: if not os.listdir(d): os.removedirs(d).
RemoveIfEmpty(d, ds, listing, files) ==
    IF listing = {} THEN Removedirs(d, ds, files) ELSE ds

GrabGps ==
    /\ pc = "gps"
    /\ \E rc \in {0, 1}, points \in GpsOutputs :
          /\ returncode' = rc
          /\ IF rc # 0
             THEN /\ Raise("CalledProcessError")
                  /\ UNCHANGED <<dirs, json_filename>>
             ELSE IF GpsData(points) = <<>>
             THEN /\ dirs' = RemoveIfEmpty("tmp", dirs, tmp_dir,
                                           OutputFiles(output_dir, json_filename))
                  /\ Raise("ValueError: No GPS points")
                  /\ UNCHANGED json_filename
             ELSE IF channel_id = ""
             THEN /\ Raise("NameError")
                  /\ UNCHANGED <<dirs, json_filename>>
             ELSE /\ json_filename' =
                        <<input_args.network, input_args.station,
                          input_args.location, channel_id>>
                  /\ pc' = "teardown"
                  /\ UNCHANGED <<dirs, error>>
    /\ UNCHANGED <<env, warned, lookups, ri, tmp_dir, tmp_dir2, output_dir,
                   loop, codes, writes>>

(***************************************************************************)
(* Lines 476-480: remove the scratch directories that are empty.           *)
(***************************************************************************)
Teardown ==
    /\ pc = "teardown"
    /\ LET files == OutputFiles(output_dir, json_filename)
           ds == RemoveIfEmpty("tmp", dirs, tmp_dir, files)
       IN  dirs' = RemoveIfEmpty("tmp2", ds, DOMAIN tmp_dir2, files)
    /\ pc' = "done"
    /\ UNCHANGED <<json_filename, env, error, warned, lookups, ri, returncode,
                   tmp_dir, tmp_dir2, output_dir, loop, codes, writes>>

Next ==
    \/ Identify
    \/ LookupOffset
    \/ LookupSensitivity
    \/ Cube2mseed
    \/ Mseedcut
    \/ ReadSegment
    \/ SetMetadata
    \/ WriteAndRename
    \/ GrabGps
    \/ Teardown

Spec == Init /\ [][Next]_vars

SpecGaps == InitGaps /\ [][Next]_vars

SpecScratch == InitScratch /\ [][Next]_vars


(***************************************************************************)
(* Properties.                                                             *)
(***************************************************************************)
NoRawFilesError == "FileNotFoundError: No raw files found."

MultipleDigitizersError == "ValueError: Files from multiple digitizers found"

SamplingRateError == "ValueError: Sampling rate is < 10 or >= 1000 Hz!"

FileNotRecognizedError == "ValueError: File not recognized."

\* The distinct extensions of the files of the input directory that belong to
\* a digitizer of the pairing table.
RawExtensions ==
    { input_dir[i] : i \in { j \in DOMAIN input_dir :
                               input_dir[j] \in DOMAIN digitizer_sensor_pairs } }

\* C1: once the raw files are gathered, no distinct extension means the run has
\* failed with the no-files error, two or more mean it has failed with the
\* mixed-digitizer error, and exactly one means it has raised neither error and
\* goes on with that extension as the digitizer.
C1_DigitizerIdentification ==
    pc # "identify" =>
        /\ extensions = RawExtensions
        /\ Cardinality(RawExtensions) = 0 =>
              pc = "failed" /\ error = NoRawFilesError
        /\ Cardinality(RawExtensions) >= 2 =>
              pc = "failed" /\ error = MultipleDigitizersError
        /\ Cardinality(RawExtensions) = 1 =>
              /\ error \notin {NoRawFilesError, MultipleDigitizersError}
              /\ pc = "offset" => "tmp" \in dirs
              /\ pc # "offset" => RawExtensions = {digitizer}

\* Two files of digitizer AEX: the run goes through with digitizer AEX.
C1_Witness ==
    /\ pc = "done"
    /\ input_dir = <<"AEX", "AEX">>
    /\ digitizer = "AEX"

\* The steps of the calibration, spelled out on a count c.
Volts(c) == RMul(c, BITWEIGHT)

PascalsAdding(c) == RDiv(RAdd(Volts(c), offset), sensitivity)

PascalsSubtracting(c) == RDiv(RSub(Volts(c), offset), sensitivity)

\* The step of SetMetadata that calibrates the first trace.
CalibrationStep == pc = "metadata" /\ pc' = "write" /\ ~input_args.earthscope

C3_ChannelBands ==
    [][pc = "metadata" =>
         LET r == st[1].sampling_rate
             below(k) == r.n < k * r.d
         IN  IF input_args.channel = "AUTO"
             THEN /\ ~below(10) /\ below(80) => channel_id' = "BDF"
                  /\ ~below(80) /\ below(250) => channel_id' = "HDF"
                  /\ ~below(250) /\ below(1000) => channel_id' = "CDF"
                  /\ below(10) \/ ~below(1000) =>
                        pc' = "failed" /\ error' = SamplingRateError
                  /\ pc' = "write" => st'[1].channel = channel_id'
             ELSE /\ channel_id' = input_args.channel
                  /\ error' # SamplingRateError
                  /\ pc' = "write" => st'[1].channel = input_args.channel]_vars

\* A segment of 79.9 Hz that got the channel code BDF.
C3_Witness ==
    /\ pc = "write"
    /\ input_args.channel = "AUTO"
    /\ st[1].sampling_rate = Rat(799, 10)
    /\ channel_id = "BDF"


\* The characters ".pri" before the last character of a file name.
HasPriSuffix(f) ==
    /\ Len(f) >= 5
    /\ \A k \in 1..4 : f[Len(f) - 5 + k] = <<46, 112, 114, 105>>[k]

LastChar(f) == f[Len(f)]

C5_LookupsFallBack ==
    /\ error # "KeyError"
    /\ pc = "failed" => digitizer = "" \/ ri = Len(raw_files)
    /\ digitizer # "" =>
          IF digitizer \in DOMAIN digitizer_offsets
          THEN /\ offset = digitizer_offsets[digitizer]
               /\ "No matching offset values." \notin warned
          ELSE /\ offset = DEFAULT_OFFSET
               /\ "No matching offset values." \in warned
    /\ (pc \notin {"identify", "offset", "sensitivity"} /\ digitizer # ""
          /\ ~input_args.earthscope) =>
          LET looked_up == IF input_args.breakout_box_factor = NoValue
                           THEN sensitivity
                           ELSE RMul(sensitivity, input_args.breakout_box_factor)
          IN  /\ sensor = digitizer_sensor_pairs[digitizer]
              /\ IF sensor \in DOMAIN sensitivities
                 THEN /\ looked_up = sensitivities[sensor]
                      /\ "No matching sensitivities." \notin warned
                 ELSE /\ looked_up = DEFAULT_SENSITIVITY
                      /\ "No matching sensitivities." \in warned

\* A run that came to its end for digitizer AEX, whose offset is in the table
\* and whose sensor has no sensitivity in the table.
C5_Witness ==
    /\ pc = "done"
    /\ digitizer = "AEX"
    /\ offset = Rat(-3, 200)
    /\ sensitivity = DEFAULT_SENSITIVITY
    /\ warned = {"No matching sensitivities."}
    /\ writes # <<>>

\* The counts recorded at tick t, and 0, the fill value of a gap.
RecordedAt(t) ==
    { recording[n][1].data[t - recording[n][1].starttime + 1] :
        n \in { m \in DOMAIN recording :
                  /\ recording[m][1].starttime <= t
                  /\ t <= EndTick(recording[m][1]) } }
      \cup { RatInt(0) }

\* C6: with --earthscope every stream written has the encoding INT32 and its
\* traces are int32 and hold recorded counts (or the zeros of a filled gap)
\* as they are; without it every stream written has the encoding FLOAT64 and
\* its traces are float64 and hold the calibrated values of the counts.
C6_RawCountsKept ==
    \A w \in Range(writes) :
        IF input_args.earthscope
        THEN /\ w.encoding = "INT32"
             /\ \A k \in DOMAIN w.st :
                   /\ w.st[k].dtype = "int32"
                   /\ \A i \in DOMAIN w.st[k].data :
                         w.st[k].data[i] \in RecordedAt(w.st[k].starttime + i - 1)
        ELSE /\ w.encoding = "FLOAT64"
             /\ \A k \in DOMAIN w.st :
                   /\ w.st[k].dtype = "float64"
                   /\ \A i \in DOMAIN w.st[k].data :
                         w.st[k].data[i] \in
                            { PascalsAdding(c) :
                                c \in RecordedAt(w.st[k].starttime + i - 1) }

\* A stream written with --earthscope and --bob-factor 4.5: the count 1000 is
\* still 1000.
C6_Witness ==
    /\ input_args.earthscope
    /\ input_args.breakout_box_factor = Rat(9, 2)
    /\ writes # <<>>
    /\ writes[1].encoding = "INT32"
    /\ writes[1].st[1].data[1] = RatInt(1000)

GroupStep ==
    /\ pc = "read"
    /\ nf < Len(cut_file_list)
    /\ mn < Len(inds)
    /\ nf = inds[mn + 1][1]
    /\ \A k \in DOMAIN inds[mn + 1] :
          cut_file_list[inds[mn + 1][k] + 1] \in DOMAIN tmp_dir2

\* The files of that hour and the traces in them, in the order of the list.
GroupNames == [k \in DOMAIN inds[mn + 1] |-> cut_file_list[inds[mn + 1][k] + 1]]

GroupTraces == [k \in DOMAIN GroupNames |-> tmp_dir2[GroupNames[k]][1]]

\* C8: a group of k > 1 files of one bucket key and one sampling rate becomes
\* exactly one trace, kept for the group's first file, that spans the traces of
\* the group with zeros in the gaps, and the other k - 1 files are removed.
C8_GroupCollapses ==
    [][GroupStep /\ ~RatesDiffer(GroupTraces) =>
         LET ts == GroupTraces
             lo == CHOOSE t \in {ts[k].starttime : k \in DOMAIN ts} :
                       \A k \in DOMAIN ts : t <= ts[k].starttime
             hi == CHOOSE t \in {EndTick(ts[k]) : k \in DOMAIN ts} :
                       \A k \in DOMAIN ts : EndTick(ts[k]) <= t
         IN  /\ pc' = "metadata"
             /\ file' = GroupNames[1]
             /\ DOMAIN tmp_dir2' =
                   DOMAIN tmp_dir2 \ {GroupNames[k] : k \in 2..Len(GroupNames)}
             /\ Len(st') = 1
             /\ st'[1].starttime = lo
             /\ EndTick(st'[1]) = hi
             /\ \A t \in lo..hi :
                   LET on == {k \in DOMAIN ts :
                                ts[k].starttime <= t /\ t <= EndTick(ts[k])}
                   IN  st'[1].data[t - lo + 1] \in
                          IF on = {} THEN {RatInt(0)}
                          ELSE {ts[k].data[t - ts[k].starttime + 1] : k \in on}]_vars

\* C9 as stated: of a group with different sampling rates exactly the members
\* with the sampling rate of the latest member are kept and merged.
C9_KeepsRateOfLatest ==
    [][GroupStep /\ RatesDiffer(GroupTraces) =>
         LET ts == GroupTraces
             latest == ts[Len(ts)].sampling_rate
         IN  /\ pc' = "metadata"
             /\ st' = Merge(SelectSeq(ts, LAMBDA t : t.sampling_rate = latest),
                            RatInt(0))]_vars

\* C9 as amended: of a group with different sampling rates a member is dropped
\* if and only if it or a member after it in the sorted list has a sampling
\* rate other than that of the latest member: the members kept are the longest
\* tail of the group with one sampling rate.
C9_KeepsLatestRun ==
    [][GroupStep /\ RatesDiffer(GroupTraces) =>
         LET ts == GroupTraces
             latest == ts[Len(ts)].sampling_rate
             kept == { k \in DOMAIN ts :
                         \A j \in k..Len(ts) : ts[j].sampling_rate = latest }
             from == CHOOSE k \in kept : \A j \in kept : k <= j
         IN  /\ pc' = "metadata"
             /\ Len(ts) \in kept
             /\ \A k \in DOMAIN st' : st'[k].sampling_rate = latest
             /\ st' = Merge(SubSeq(ts, from, Len(ts)), RatInt(0))]_vars

\* An hour of three files at 100, 200 and 100 Hz has been reconciled: only
\* the last file is kept, though the first has the sampling rate of the last.
C9_Witness ==
    /\ pc = "metadata"
    /\ mn = 1
    /\ Len(inds[1]) = 3
    /\ LET rate(k) == recording[cut_file_list[inds[1][k] + 1]][1].sampling_rate
       IN  rate(1) = RatInt(100) /\ rate(2) = RatInt(200) /\ rate(3) = RatInt(100)
    /\ Len(st) = 1
    /\ st[1].starttime = recording[cut_file_list[inds[1][3] + 1]][1].starttime
    /\ Len(st[1].data) = Len(recording[cut_file_list[inds[1][3] + 1]][1].data)

\* C10: when a call of cube2mseed, mseedcut or mseedrename has returned a
\* failure, the run has ended in failure.
C10_ToolFailureIsFatal == returncode # 0 => pc = "failed"

\* What a scratch directory holds.
ScratchListing(d) == IF d = "tmp" THEN tmp_dir ELSE DOMAIN tmp_dir2

\* C11: a scratch directory that exists when the script comes to create it is
\* left as it is, with what it holds; a scratch directory is removed only at a
\* teardown point (the end of the run, or the GPS stage finding no point) and
\* only if it is empty at that moment: in no run, failed or not, does a scratch
\* directory that holds a file disappear.
C11_ScratchLifecycle ==
    [][/\ \A d \in {"tmp", "tmp2"} :
            /\ d \in dirs /\ d \notin dirs' =>
                  /\ ScratchListing(d) = {}
                  /\ pc \in {"gps", "teardown"}
            /\ d \notin dirs /\ d \in dirs' =>
                  pc = (IF d = "tmp" THEN "identify" ELSE "mseedcut")
       /\ pc = "identify" /\ "tmp" \in dirs =>
            "tmp" \in dirs' /\ tmp_dir' = tmp_dir
       /\ pc = "mseedcut" /\ "tmp2" \in dirs =>
            /\ "tmp2" \in dirs'
            /\ \A n \in DOMAIN tmp_dir2 \ DOMAIN recording :
                  n \in DOMAIN tmp_dir2' /\ tmp_dir2'[n] = tmp_dir2[n]
       /\ pc' = "done" =>
            /\ tmp_dir = {} => "tmp" \notin dirs'
            /\ DOMAIN tmp_dir2 # {} => "tmp2" \in dirs']_vars

\* A run on a tmp2/ that was there came to its end with a file that
\* mseedrename did not move: tmp/ is removed and tmp2/ is kept with the file.
C11_Witness ==
    /\ pc = "done"
    /\ writes # <<>>
    /\ "tmp" \notin dirs
    /\ "tmp2" \in dirs
    /\ CutName(LeftoverCut) \in DOMAIN tmp_dir2

C13_OutputNaming ==
    [][pc = "write" /\ pc' = "read" =>
         LET written == writes'[Len(writes')].st[1]
         IN  /\ name_template' =
                   <<input_args.network, input_args.station,
                     written.location, written.channel>>
             /\ written.network = input_args.network
             /\ written.station = input_args.station
             /\ written.location = location_id
             /\ written.location =
                   IF input_args.location = "AUTO"
                   THEN <<"01", "02", "03">>[LastChar(file) - 47]
                   ELSE input_args.location
             /\ written.channel = channel_id
             /\ input_args.channel # "AUTO" => written.channel = input_args.channel
             /\ writes'[Len(writes')].file = file
             /\ file \notin DOMAIN tmp_dir2' =>
                   LET name == [network |-> input_args.network,
                                station |-> input_args.station,
                                location |-> written.location,
                                channel |-> written.channel,
                                year |-> YearOf(written.starttime),
                                hour |-> HourOf(written.starttime)]
                   IN  /\ name \in DOMAIN output_dir'
                       /\ output_dir'[name] = st]_vars

\* The file of the second channel slot, recorded at 10 Hz in the hour 3 of
\* 2019, has been moved to AV.GAIA.02.BDF.2019.*.03.
C13_Witness ==
    /\ pc = "read"
    /\ name_template = <<"AV", "GAIA", "02", "BDF">>
    /\ [network |-> "AV", station |-> "GAIA", location |-> "02",
        channel |-> "BDF", year |-> 19, hour |-> 3] \in DOMAIN output_dir

\* The cut whose file has the name f.
CutOf(f) ==
    CHOOSE c \in ChannelCuts \cup GapCuts \cup {LeftoverCut} : CutName(c) = f

\* The files at the places i and j of the sorted list (counted from 1) are in
\* one group of inds.
Grouped(i, j) ==
    \E m \in DOMAIN inds :
        \E a \in DOMAIN inds[m], b \in DOMAIN inds[m] :
            inds[m][a] = i - 1 /\ inds[m][b] = j - 1

\* C14: two cut files are in one group if and only if they are of the same
\* day, the same hour and the same channel-slot suffix.
C14_GroupsByDayHourSlot ==
    \A i \in DOMAIN cut_file_list, j \in DOMAIN cut_file_list :
        i < j =>
            LET a == CutOf(cut_file_list[i])
                b == CutOf(cut_file_list[j])
            IN  Grouped(i, j) <=>
                    a.yy = b.yy /\ a.hh = b.hh /\ a.suf = b.suf

\* C15: on the files of a group, whatever their sampling rates, the discard
\* loop ends after fewer passes than the group has files and leaves at least
\* one trace, the last one of the group among them; the stream that goes on
\* to the metadata step is not empty.
C15_DiscardLeavesOne ==
    [][GroupStep =>
         LET ts == GroupTraces
         IN  /\ DiscardPasses(ts) < Len(ts)
             /\ Len(DiscardOldest(ts)) = Len(ts) - DiscardPasses(ts)
             /\ Len(DiscardOldest(ts)) >= 1
             /\ DiscardOldest(ts)[Len(DiscardOldest(ts))] = ts[Len(ts)]
             /\ pc' = "metadata" /\ Len(st') >= 1]_vars

\* An hour of two files at 100 and 200 Hz: one pass, one trace left.
C15_Witness ==
    /\ pc = "metadata"
    /\ mn = 1
    /\ Len(inds[1]) = 2
    /\ LET rate(k) == recording[cut_file_list[inds[1][k] + 1]][1].sampling_rate
       IN  rate(1) = RatInt(100) /\ rate(2) = RatInt(200)
    /\ Len(st) = 1
    /\ st[1].sampling_rate = RatInt(200)

\* The files the loop has written back (and handed to mseedrename).
WrittenFiles == { writes[i].file : i \in DOMAIN writes }

\* C16: the loop never reads a file that an earlier pass has removed, and
\* when it has gone through the sorted list every file of the list has been
\* handled exactly once: written and handed to mseedrename once, or read as a
\* member of a group and removed.
C16_EachFileOnce ==
    /\ error # "FileNotFoundError"
    /\ \A i \in DOMAIN writes, j \in DOMAIN writes :
          writes[i].file = writes[j].file => i = j
    /\ pc \in {"gps", "teardown", "done"} =>
          \A k \in DOMAIN cut_file_list :
              \/ cut_file_list[k] \in WrittenFiles
              \/ cut_file_list[k] \notin DOMAIN tmp_dir2

=============================================================================
